---- MODULE Spec2Model ----
(***************************************************************************)
(* A model of geniushubclient/__init__.py: the GeniusHub / GeniusZone /    *)
(* GeniusDevice object graph, the raw caches of the hub, and every         *)
(* operation of the client as the steps between its awaited requests.      *)
(*                                                                         *)
(* Objects live in two heaps (zoneObj, deviceObj); an object's identity is *)
(* its index in its heap.  A python dict is a TLA+ function, a python list *)
(* a sequence, None is the string NoneVal.                                 *)
(***************************************************************************)
EXTENDS Integers, Sequences, FiniteSets, TLC

\* ------------------------------------------------------------------ bounds
\* longest list of records an upstream response carries
MaxRecs == 2

\* ------------------------------------------------------------- vocabulary
NoneVal == "None"

\* an attribute that holds None or a value: <<>> or <<value>>
None == <<>>

Some(v) == <<v>>

HTTP_OK == 200

Tasks == {1, 2}
\* the single logical flow of control of one client
MainTasks == {1}

ZoneIds == {1, 2}
ZoneNames == {"A", "B"}
DeviceIds == {"5"}

EmptyMap == [x \in {} |-> x]

Put(m, k, v) == [x \in DOMAIN m \cup {k} |-> IF x = k THEN v ELSE m[x]]

Range(s) == {s[i] : i \in DOMAIN s}

SeqsUpTo(S, n) == UNION {[1..k -> S] : k \in 0..n}

\* the lists of at most n records of S that name each id once, as upstream does
ListsById(S, n) ==
    {l \in SeqsUpTo(S, n) : \A i, j \in DOMAIN l : i # j => l[i].id # l[j].id}

\* the same for v3 zone records, whose id is iID
ListsByIID(S, n) ==
    {l \in SeqsUpTo(S, n) : \A i, j \in DOMAIN l : i # j => l[i].iID # l[j].iID}

\* python truthiness of a name: None and the empty string are falsy
Truthy(name) == name # NoneVal /\ name # ""

\* ------------------------------------------------------ list.sort(key=)
\* python's sort is stable: x goes after every element whose key is <= its own
\* i is the number of elements of s whose key is <= the key of x
InsertAfter(s, x, i) ==
    SubSeq(s, 1, i) \o <<x>> \o SubSeq(s, i + 1, Len(s))

\* key=lambda s: int(s['id'])
ZoneKey(rec) == rec.id

\* self._zones.sort(key=lambda s: int(s['id']))
SortZones(s) ==
    LET f[n \in 0..Len(s)] ==
            IF n = 0 THEN <<>>
            ELSE LET p == f[n - 1]
                 IN  InsertAfter(p, s[n],
                       Cardinality({j \in DOMAIN p : ZoneKey(p[j]) <= ZoneKey(s[n])}))
    IN  f[Len(s)]

\* the addresses of the model in python's string order
AddrOrder == <<"1", "5", "6", "WeatherData">>

\* key=lambda s: s['id']
DeviceKey(rec) == CHOOSE i \in DOMAIN AddrOrder : AddrOrder[i] = rec.id

\* self._devices.sort(key=lambda s: s['id'])
SortDevices(s) ==
    LET f[n \in 0..Len(s)] ==
            IF n = 0 THEN <<>>
            ELSE LET p == f[n - 1]
                 IN  InsertAfter(p, s[n],
                       Cardinality({j \in DOMAIN p : DeviceKey(p[j]) <= DeviceKey(s[n])}))
    IN  f[Len(s)]

\* ------------------------------------------------- const.py (enum tables)
zone_types == [Manager |-> 1, OnOffTimer |-> 2, ControlSP |-> 3, TPI |-> 5]

zone_modes == [Off |-> 1, Timer |-> 2, Footprint |-> 4, Override |-> 16]

kit_types == [PIR |-> 16]

ITYPE_TO_TYPE ==
    (zone_types.Manager :> "Manager") @@ (zone_types.OnOffTimer :> "OnOffTimer")
    @@ (zone_types.ControlSP :> "ControlSP") @@ (zone_types.TPI :> "TPI")

IMODE_TO_MODE ==
    (zone_modes.Off :> "off") @@ (zone_modes.Timer :> "timer")
    @@ (zone_modes.Footprint :> "footprint") @@ (zone_modes.Override :> "override")

\* x & kit_types.PIR, for the one-bit mask PIR = 2^4
HasPIR(flags) == (flags \div kit_types.PIR) % 2 = 1

\* ------------------------------------------------------- _convert_zone
\* [ok, value]: ok is FALSE where the python raises KeyError
\* the occupied key written whatever the expected kit is
OccupiedAlways(input) ==
    [occupied |->
       /\ input.iMode = zone_modes.Footprint
       /\ input.objFootprint.objReactive.bTriggerOn
       /\ ~input.objFootprint.bIsNight]

\* result['occupied'], for a zone that expects a PIR
Occupied(input) ==
    IF HasPIR(input.iFlagExpectedKit)
    THEN [occupied |->
            /\ input.iMode = zone_modes.Footprint
            /\ input.objFootprint.objReactive.bTriggerOn
            /\ ~input.objFootprint.bIsNight]
    ELSE EmptyMap

\* the override block and the schedule written whatever the type is
OverrideForAll(input) ==
    [override |->
       [duration |-> input.iBoostTimeRemaining,
        setpoint |-> IF input.iType = zone_types.OnOffTimer
                     THEN (input.fBoostSP # 0)
                     ELSE input.fBoostSP],
     schedule |-> EmptyMap]

\* result['override'], result['schedule']
Override(input) ==
    IF input.iType \in {zone_types.OnOffTimer, zone_types.ControlSP,
                        zone_types.TPI}
    THEN [override |->
            [duration |-> input.iBoostTimeRemaining,
             setpoint |-> IF input.iType = zone_types.OnOffTimer
                          THEN (input.fBoostSP # 0)
                          ELSE input.fBoostSP],
          schedule |-> EmptyMap]
    ELSE EmptyMap

_convert_zone(input) ==
    IF input.iType \notin DOMAIN ITYPE_TO_TYPE \/ input.iMode \notin DOMAIN IMODE_TO_MODE
    THEN [ok |-> FALSE, value |-> NoneVal]
    ELSE
    LET base == [id |-> input.iID, type |-> ITYPE_TO_TYPE[input.iType],
                 name |-> input.strName, mode |-> IMODE_TO_MODE[input.iMode]]
        temp == IF input.iType \in {zone_types.ControlSP, zone_types.TPI}
                THEN [temperature |-> input.fPV, setpoint |-> input.fSP]
                ELSE IF input.iType = zone_types.OnOffTimer
                     THEN [setpoint |-> (input.fSP # 0)]
                     ELSE EmptyMap
    IN  [ok |-> TRUE,
         value |-> base @@ temp @@ Occupied(input) @@ Override(input)]

\* ----------------------------------------------------- _convert_device
_convert_device(input) ==
    LET node == input.childNodes._cfg.childValues
        tmp  == input.childValues.location.val
        kind == IF node # EmptyMap
                THEN [type |-> node.name.val, sku |-> node.sku.val]
                ELSE [type |-> NoneVal]
    IN  [id |-> input.addr,
         assignedZones |-> <<[name |-> IF Truthy(tmp) THEN tmp ELSE NoneVal]>>,
         state |-> EmptyMap] @@ kind

_extract_zones_from_zones(input) == input

\* the nodes of one zone that are kept
KeptNodes(zone) ==
    IF "nodes" \in DOMAIN zone
    THEN SelectSeq(zone.nodes, LAMBDA node : node.addr \notin {"1", "WeatherData"})
    ELSE <<>>

RECURSIVE _extract_devices_from_zones(_)
_extract_devices_from_zones(input) ==
    IF input = <<>> THEN <<>>
    ELSE KeptNodes(Head(input)) \o _extract_devices_from_zones(Tail(input))

\* ------------------------------------------------------------------ state
VARIABLES
    api_v1,         \* GeniusHubClient._api_v1
    zone_objs,      \* GeniusHub.zone_objs: list of Zone objects
    zone_by_id,     \* GeniusHub.zone_by_id
    zone_by_name,   \* GeniusHub.zone_by_name
    device_objs,    \* GeniusHub.device_objs
    device_by_id,   \* GeniusHub.device_by_id
    zoneObj,        \* heap of GeniusZone objects
    deviceObj,      \* heap of GeniusDevice objects
    _zones,         \* GeniusHub._zones
    _devices,       \* GeniusHub._devices
    _issues,        \* GeniusHub._issues
    _zones_raw,     \* GeniusHub._zones_raw
    _devices_raw,   \* GeniusHub._devices_raw
    pc,             \* per task: the await it is suspended at, or "idle"
    op,             \* per task: the operation it runs, or ran last
    req,            \* per task: the request in flight
    target,         \* per task: the Zone or Device object the operation is called on
    sent,           \* per task: requests issued by the operation so far
    result,         \* per task: how the last operation ended
    ret,            \* per task: the value the last operation returned
    lastPass,       \* history: how the latest update pass relates to the one before
    fn,             \* the module-level function that was applied, or "none"
    fn_input,       \* the argument of that function
    fn_output       \* what the function returned or raised

graphVars == <<zone_objs, zone_by_id, zone_by_name, device_objs, device_by_id,
               zoneObj, deviceObj>>

cacheVars == <<_zones, _devices, _issues, _zones_raw, _devices_raw>>

taskVars == <<pc, op, req, target, sent, result, ret>>

funVars == <<fn, fn_input, fn_output>>

vars == <<api_v1, graphVars, cacheVars, taskVars, lastPass, funVars>>

\* the object graph as one value, threaded through the reconciliation
Graph ==
    [zone_objs |-> zone_objs, zone_by_id |-> zone_by_id,
     zone_by_name |-> zone_by_name, device_objs |-> device_objs,
     device_by_id |-> device_by_id, zoneObj |-> zoneObj,
     deviceObj |-> deviceObj, err |-> NoneVal]

SetGraph(g) ==
    /\ zone_objs' = g.zone_objs
    /\ zone_by_id' = g.zone_by_id
    /\ zone_by_name' = g.zone_by_name
    /\ device_objs' = g.device_objs
    /\ device_by_id' = g.device_by_id
    /\ zoneObj' = g.zoneObj
    /\ deviceObj' = g.deviceObj

\* ------------------------------------------------------------ constructors
GeniusZone(zone_dict) ==
    [data |-> zone_dict, device_objs |-> <<>>, device_by_id |-> EmptyMap]

GeniusDevice(zone, device_dict) == [data |-> device_dict, _zone |-> zone]

\* ------------------------------------------- GeniusHub.update: reconciliation
\* a Zone object made and registered for zone_dict
NewZone(g, zone_dict) ==
    LET zone == Len(g.zoneObj) + 1
        obj  == GeniusZone(zone_dict)
    IN  [g EXCEPT !.zoneObj = Append(@, obj),
                  !.zone_objs = Append(@, zone),
                  !.zone_by_id = Put(@, obj.data.id, zone),
                  !.zone_by_name = Put(@, obj.data.name, zone)]

\* _populate_zone without its lookup: every record makes a Zone
PopulateZoneNoLookup(g, zone_dict) ==
    IF "id" \notin DOMAIN zone_dict THEN [g EXCEPT !.err = "KeyError"]
    ELSE NewZone(g, zone_dict)

\* _populate_zone that also refreshes the Zone it found from the record
PopulateZoneRefreshing(g, zone_dict) ==
    IF "id" \notin DOMAIN zone_dict THEN [g EXCEPT !.err = "KeyError"]
    ELSE IF zone_dict.id \in DOMAIN g.zone_by_id
    THEN [g EXCEPT !.zoneObj[g.zone_by_id[zone_dict.id]].data = zone_dict @@ @]
    ELSE NewZone(g, zone_dict)

\* _populate_zone that starts the by-id table afresh for each new Zone
PopulateZoneForgetting(g, zone_dict) ==
    IF "id" \notin DOMAIN zone_dict THEN [g EXCEPT !.err = "KeyError"]
    ELSE IF zone_dict.id \in DOMAIN g.zone_by_id THEN g
    ELSE [NewZone(g, zone_dict) EXCEPT
            !.zone_by_id = Put(EmptyMap, zone_dict.id, Len(g.zoneObj) + 1)]

_populate_zone(g, zone_dict) ==
    IF "id" \notin DOMAIN zone_dict THEN [g EXCEPT !.err = "KeyError"]
    ELSE IF zone_dict.id \in DOMAIN g.zone_by_id THEN g
    ELSE NewZone(g, zone_dict)

\* LinkDevice that puts a copy of the Device into the zone's table
LinkDeviceCopy(g, zone, idx, device) ==
    IF zone = 0 \/ idx \in DOMAIN g.zoneObj[zone].device_by_id THEN g
    ELSE LET copy == Len(g.deviceObj) + 1
         IN  [g EXCEPT !.deviceObj = Append(@, g.deviceObj[device]),
                       !.zoneObj[zone].device_objs = Append(@, copy),
                       !.zoneObj[zone].device_by_id =
                            Put(@, g.deviceObj[device].data.id, copy)]

\* the Zone's part of _populate_device: link the device into the zone's table
LinkDevice(g, zone, idx, device) ==
    IF zone = 0 \/ idx \in DOMAIN g.zoneObj[zone].device_by_id THEN g
    ELSE [g EXCEPT !.zoneObj[zone].device_objs = Append(@, device),
                   !.zoneObj[zone].device_by_id =
                        Put(@, g.deviceObj[device].data.id, device)]

\* FindOrCreateDevice without its lookup: every record makes a Device
FindOrCreateDeviceNoLookup(g, zone, device_dict) ==
    LET device == Len(g.deviceObj) + 1
        obj    == GeniusDevice(zone, device_dict)
    IN  [g EXCEPT !.deviceObj = Append(@, obj),
                  !.device_objs = Append(@, device),
                  !.device_by_id = Put(@, obj.data.id, device)]

\* FindOrCreateDevice that leaves the new Device out of hub.device_objs
FindOrCreateDeviceUnlisted(g, zone, device_dict) ==
    IF device_dict.id \in DOMAIN g.device_by_id THEN g
    ELSE LET device == Len(g.deviceObj) + 1
             obj    == GeniusDevice(zone, device_dict)
         IN  [g EXCEPT !.deviceObj = Append(@, obj),
                       !.device_by_id = Put(@, obj.data.id, device)]

\* the Hub's part of _populate_device: find the device by id or create it
FindOrCreateDevice(g, zone, device_dict) ==
    IF device_dict.id \in DOMAIN g.device_by_id THEN g
    ELSE LET device == Len(g.deviceObj) + 1
             obj    == GeniusDevice(zone, device_dict)
         IN  [g EXCEPT !.deviceObj = Append(@, obj),
                       !.device_objs = Append(@, device),
                       !.device_by_id = Put(@, obj.data.id, device)]

_populate_device(g, device_dict) ==
    IF "assignedZones" \notin DOMAIN device_dict THEN [g EXCEPT !.err = "KeyError"]
    ELSE
    LET name == device_dict.assignedZones[1].name
    IN  IF Truthy(name) /\ name \notin DOMAIN g.zone_by_name
        THEN [g EXCEPT !.err = "KeyError"]
        ELSE LET zone == IF Truthy(name) THEN g.zone_by_name[name] ELSE 0
                 idx  == device_dict.id
                 g1   == FindOrCreateDevice(g, zone, device_dict)
             IN  LinkDevice(g1, zone, idx, g1.device_by_id[idx])

\* for zone in ...: _populate_zone(zone), stopping at the first exception
PopulateZones(g, list) ==
    LET f[n \in 0..Len(list)] ==
            IF n = 0 THEN g
            ELSE IF f[n - 1].err # NoneVal THEN f[n - 1]
            ELSE _populate_zone(f[n - 1], list[n])
    IN  f[Len(list)]

\* for device in ...: _populate_device(device), stopping at the first exception
PopulateDevices(g, list) ==
    LET f[n \in 0..Len(list)] ==
            IF n = 0 THEN g
            ELSE IF f[n - 1].err # NoneVal THEN f[n - 1]
            ELSE _populate_device(f[n - 1], list[n])
    IN  f[Len(list)]

\* ------------------------------------ _extract_devices_from_data_manager
\* a python dict is iterated in insertion order: here the list of its
\* <<key, value>> items
DevicesOfContainer(v1) ==
    LET kept == SelectSeq(v1.childNodes, LAMBDA item : item[2].addr # "1")
    IN  [i \in DOMAIN kept |-> _convert_device(kept[i][2])]

RECURSIVE ContainersDevices(_)
ContainersDevices(items) ==
    IF items = <<>> THEN <<>>
    ELSE (IF Head(items)[1] # "WeatherData"
          THEN DevicesOfContainer(Head(items)[2])
          ELSE <<>>)
         \o ContainersDevices(Tail(items))

_extract_devices_from_data_manager(input) == ContainersDevices(input.childNodes)

\* what a function call gave: a value returned, or an exception raised
NoInput == [kind |-> "none"]

NoOutput == [err |-> NoneVal, value |-> None]

Returned(v) == [err |-> NoneVal, value |-> Some(v)]

Raised(e) == [err |-> e, value |-> None]

\* ------------------------------------------------------ upstream responses
V1ZoneRecs == [id : ZoneIds, name : ZoneNames]

V1DeviceRecs ==
    [id : DeviceIds,
     assignedZones : {<<[name |-> n]>> : n \in ZoneNames \cup {NoneVal}}]

\* a node of a v3 zone, at address addr, located in the zone called loc
V3Node(addr, loc) ==
    [addr |-> addr,
     childNodes |-> [_cfg |-> [childValues |->
                        [name |-> [val |-> "valve"], sku |-> [val |-> "DA-WRV"]]]],
     childValues |-> [location |-> [val |-> loc]]]

V3NodeLists == {<<V3Node("1", "A")>>, <<V3Node("6", "A"), V3Node("5", "A")>>}

\* a v3 zone record without a nodes list
V3Zone(iID, iType) ==
    [iID |-> iID, strName |-> "A", iType |-> iType, iMode |-> zone_modes.Off,
     fPV |-> 21, fSP |-> 20, iFlagExpectedKit |-> 0,
     iBoostTimeRemaining |-> 0, fBoostSP |-> 0]

\* 9 is a type code that const.py does not list
V3ZoneRecs ==
    {V3Zone(i, ty) : i \in ZoneIds, ty \in {zone_types.ControlSP, 9}}
    \cup {V3Zone(i, zone_types.ControlSP) @@ [nodes |-> ns] :
            i \in ZoneIds, ns \in V3NodeLists}

\* the body of GET zones
ZonesBodies ==
    IF api_v1 THEN ListsById(V1ZoneRecs, MaxRecs)
    ELSE {[data |-> d] : d \in ListsByIID(V3ZoneRecs, MaxRecs)}

\* the body of GET devices (v1 only)
DevicesBodies == ListsById(V1DeviceRecs, MaxRecs)

\* ------------------------------------------------- GeniusHub._get_zones
\* for zone in ...: self._zones.append(_convert_zone(zone)), until one raises
ConvertZones(list) ==
    LET f[n \in 0..Len(list)] ==
            IF n = 0 THEN [err |-> NoneVal, out |-> <<>>]
            ELSE IF f[n - 1].err # NoneVal THEN f[n - 1]
            ELSE LET c == _convert_zone(list[n])
                 IN  IF c.ok THEN [f[n - 1] EXCEPT !.out = Append(@, c.value)]
                     ELSE [f[n - 1] EXCEPT !.err = "KeyError"]
    IN  f[Len(list)]

\* [err, zones, raw, value]: the caches after the fetch and the value returned;
\* under v1 _zones and _zones_raw are one list, which the sort reorders
_get_zones(body) ==
    IF api_v1
    THEN LET sorted == SortZones(body)
         IN  [err |-> NoneVal, zones |-> sorted, raw |-> Some(sorted),
              value |-> sorted]
    ELSE LET conv == ConvertZones(_extract_zones_from_zones(body.data))
         IN  IF conv.err # NoneVal
             THEN [err |-> conv.err, zones |-> conv.out, raw |-> _zones_raw,
                   value |-> <<>>]
             ELSE [err |-> NoneVal, zones |-> SortZones(conv.out),
                   raw |-> Some(body.data), value |-> body.data]

\* ----------------------------------------------- GeniusHub._get_devices
ConvertDevices(list) == [i \in DOMAIN list |-> _convert_device(list[i])]

\* [devices, raw, value] from the fetched list raw_json
_get_devices(raw_json) ==
    IF api_v1
    THEN LET sorted == SortDevices(raw_json)
         IN  [devices |-> sorted, raw |-> Some(sorted), value |-> sorted]
    ELSE [devices |-> SortDevices(ConvertDevices(_extract_devices_from_zones(raw_json))),
          raw |-> Some(raw_json), value |-> raw_json]

\* python truthiness of a raw cache: None and [] are falsy
TruthyRaw(o) == o # None /\ o[1] # <<>>

\* ---------------------------------------------------------------- requests
Request(method, url, data) == [method |-> method, url |-> url, data |-> data]

\* GeniusObject._request up to its await: the task t suspends at label
Send(t, label, request) ==
    /\ pc' = [pc EXCEPT ![t] = label]
    /\ req' = [req EXCEPT ![t] = Some(request)]
    /\ sent' = [sent EXCEPT ![t] = @ + 1]
    /\ UNCHANGED target

\* the operation of task t ends with outcome r, returning v
Finish(t, r, v) ==
    /\ pc' = [pc EXCEPT ![t] = "idle"]
    /\ req' = [req EXCEPT ![t] = None]
    /\ target' = [target EXCEPT ![t] = 0]
    /\ result' = [result EXCEPT ![t] = r]
    /\ ret' = [ret EXCEPT ![t] = v]

\* a call of operation name on object self by the idle task t
Call(t, name, self) ==
    /\ pc[t] = "idle"
    /\ op' = [op EXCEPT ![t] = name]
    /\ target' = [target EXCEPT ![t] = self]
    /\ lastPass' = IF name = "Hub.update" THEN lastPass ELSE "none"

\* the call's first request, after which the task t suspends at label
FirstSend(t, label, request) ==
    /\ pc' = [pc EXCEPT ![t] = label]
    /\ req' = [req EXCEPT ![t] = Some(request)]
    /\ sent' = [sent EXCEPT ![t] = 1]
    /\ result' = [result EXCEPT ![t] = NoneVal]
    /\ ret' = [ret EXCEPT ![t] = None]

\* ------------------------------------------------------------------- Init
Init ==
    /\ api_v1 \in BOOLEAN
    /\ zone_objs = <<>>
    /\ zone_by_id = EmptyMap
    /\ zone_by_name = EmptyMap
    /\ device_objs = <<>>
    /\ device_by_id = EmptyMap
    /\ zoneObj = <<>>
    /\ deviceObj = <<>>
    /\ _zones = <<>>
    /\ _devices = <<>>
    /\ _issues = <<>>
    /\ _zones_raw = None
    /\ _devices_raw = None
    /\ pc = [t \in Tasks |-> "idle"]
    /\ op = [t \in Tasks |-> NoneVal]
    /\ req = [t \in Tasks |-> None]
    /\ target = [t \in Tasks |-> 0]
    /\ sent = [t \in Tasks |-> 0]
    /\ result = [t \in Tasks |-> NoneVal]
    /\ ret = [t \in Tasks |-> None]
    /\ lastPass = "none"
    /\ fn = "none"
    /\ fn_input = NoInput
    /\ fn_output = NoOutput

\* ------------------------------------------------------ GeniusHub.update
\* update() up to its first await: GET zones
HubUpdateCall(t) ==
    /\ Call(t, "Hub.update", 0)
    /\ FirstSend(t, "update_zones", Request("GET", <<"zones">>, NoneVal))
    /\ UNCHANGED <<api_v1, funVars, graphVars, cacheVars>>

\* the rest of _get_devices once raw_json is at hand, and the device loop
DevicesPass(t, g, raw_json, sameZones) ==
    LET d  == _get_devices(raw_json)
        g1 == PopulateDevices(g, d.value)
    IN  /\ _devices' = d.devices
        /\ _devices_raw' = d.raw
        /\ SetGraph(g1)
        /\ Finish(t, IF g1.err # NoneVal THEN g1.err ELSE "ok", None)
        /\ lastPass' = IF sameZones /\ d.raw = _devices_raw THEN "same" ELSE "full"
        /\ UNCHANGED sent

\* from the zones response to the next await, or to the end of update()
HubUpdateZonesResp(t) ==
    /\ pc[t] = "update_zones"
    /\ \E body \in ZonesBodies :
         LET z == _get_zones(body)
             g == PopulateZones(Graph, z.value)
             same == lastPass \in {"full", "same"} /\ z.raw = _zones_raw
         IN  /\ _zones' = z.zones
             /\ _zones_raw' = z.raw
             /\ IF z.err # NoneVal
                THEN /\ Finish(t, z.err, None)
                     /\ lastPass' = "none"
                     /\ UNCHANGED <<graphVars, _devices, _devices_raw, sent>>
                ELSE IF g.err # NoneVal
                THEN /\ SetGraph(g)
                     /\ Finish(t, g.err, None)
                     /\ lastPass' = "none"
                     /\ UNCHANGED <<_devices, _devices_raw, sent>>
                ELSE IF api_v1
                THEN /\ SetGraph(g)
                     /\ Send(t, "update_devices",
                             Request("GET", <<"devices">>, NoneVal))
                     /\ lastPass' = IF same THEN "same_zones" ELSE "other"
                     /\ UNCHANGED <<_devices, _devices_raw, result, ret>>
                ELSE IF TruthyRaw(z.raw)
                THEN DevicesPass(t, g, z.raw[1], same)
                ELSE /\ SetGraph(g)
                     /\ Send(t, "update_zones2",
                             Request("GET", <<"zones">>, NoneVal))
                     /\ lastPass' = "other"
                     /\ UNCHANGED <<_devices, _devices_raw, result, ret>>
    /\ UNCHANGED <<api_v1, funVars, _issues, op>>

\* v1: from the devices response to the end of update()
HubUpdateDevicesResp(t) ==
    /\ pc[t] = "update_devices"
    /\ \E body \in DevicesBodies :
         DevicesPass(t, Graph, body, lastPass = "same_zones")
    /\ UNCHANGED <<api_v1, funVars, _zones, _issues, _zones_raw, op>>

\* v3: _get_devices awaited _get_zones itself; from its response to the end
HubUpdateZones2Resp(t) ==
    /\ pc[t] = "update_zones2"
    /\ \E body \in ZonesBodies :
         LET z == _get_zones(body)
         IN  /\ _zones' = z.zones
             /\ _zones_raw' = z.raw
             /\ IF z.err # NoneVal
                THEN /\ Finish(t, z.err, None)
                     /\ lastPass' = "none"
                     /\ UNCHANGED <<graphVars, _devices, _devices_raw, sent>>
                ELSE DevicesPass(t, Graph, z.value, FALSE)
    /\ UNCHANGED <<api_v1, funVars, _issues, op>>

\* a response that is not HTTP_OK undoing what the operation registered
RequestFailsRollingBack(t) ==
    /\ pc[t] # "idle"
    /\ \E status \in {404, 500} :
         /\ status # HTTP_OK
         /\ Finish(t, "AssertionError", None)
    /\ lastPass' = IF op[t] = "Hub.update" THEN "none" ELSE lastPass
    /\ zone_objs' = <<>>
    /\ zone_by_id' = EmptyMap
    /\ zone_by_name' = EmptyMap
    /\ UNCHANGED <<api_v1, funVars, device_objs, device_by_id, zoneObj,
                   deviceObj, cacheVars, op, sent>>

\* a response that is not HTTP_OK answered by sending the request again
RequestFailsRetrying(t) ==
    /\ pc[t] # "idle"
    /\ \E status \in {404, 500} :
         /\ status # HTTP_OK
         /\ Send(t, pc[t], req[t][1])
    /\ lastPass' = IF op[t] = "Hub.update" THEN "none" ELSE lastPass
    /\ UNCHANGED <<api_v1, funVars, graphVars, cacheVars, op, result, ret>>

\* assert response.status == HTTP_OK fails: the awaiting operation raises
RequestFails(t) ==
    /\ pc[t] # "idle"
    /\ \E status \in {404, 500} :
         /\ status # HTTP_OK
         /\ Finish(t, "AssertionError", None)
    /\ lastPass' = IF op[t] = "Hub.update" THEN "none" ELSE lastPass
    /\ UNCHANGED <<api_v1, funVars, graphVars, cacheVars, op, sent>>

\* ------------------------------------------- GeniusHub.zones, .devices
\* GeniusZone.info, GeniusDevice.info: the attributes whose names do not
\* start with '_' and are not the device tables, that is the merged dict
ZoneInfo(zone) == zoneObj[zone].data

DeviceInfo(device) == deviceObj[device].data

\* the zones accessor: no await in it, so one step
HubZones(t) ==
    /\ Call(t, "Hub.zones", 0)
    /\ _zones' = IF _zones = <<>>
                 THEN [i \in DOMAIN zone_objs |-> ZoneInfo(zone_objs[i])]
                 ELSE _zones
    /\ sent' = [sent EXCEPT ![t] = 0]
    /\ Finish(t, "ok", Some(_zones'))
    /\ UNCHANGED <<api_v1, funVars, graphVars, _devices, _issues, _zones_raw, _devices_raw>>

\* the devices accessor: no await in it, so one step
HubDevices(t) ==
    /\ Call(t, "Hub.devices", 0)
    /\ _devices' = IF _devices = <<>>
                   THEN [i \in DOMAIN device_objs |-> DeviceInfo(device_objs[i])]
                   ELSE _devices
    /\ sent' = [sent EXCEPT ![t] = 0]
    /\ Finish(t, "ok", Some(_devices'))
    /\ UNCHANGED <<api_v1, funVars, graphVars, _zones, _issues, _zones_raw, _devices_raw>>

\* ------------------------------------ GeniusHub.issues, ._get_issues
LEVEL_TO_TEXT == (1 :> "information") @@ (2 :> "warning") @@ (3 :> "error")

DESCRIPTION_TO_TEXT ==
    ("node:low_battery" :> <<"The battery for ", "{}", " is low">>)

\* str.format with one argument: the placeholder becomes the argument
Format(message, arg) ==
    [i \in DOMAIN message |-> IF message[i] = "{}" THEN arg ELSE message[i]]

V1IssueRecs == {[description |-> <<"The hub has lost power">>, level |-> "error"]}

\* a v3 zone as GET issues returns it, with one issue or none
V3IssueZones ==
    {[strName |-> "A", lstIssues |-> <<>>]}
    \cup {[strName |-> "A", lstIssues |-> <<[id |-> i, level |-> 2]>>] :
            i \in {"node:low_battery", "node:unlisted"}}

IssuesBodies ==
    IF api_v1 THEN SeqsUpTo(V1IssueRecs, MaxRecs)
    ELSE {[data |-> d] : d \in SeqsUpTo(V3IssueZones, MaxRecs)}

\* the issues of one zone, an unlisted id or level given a placeholder text
ConvertIssuesDefaulting(zone) ==
    [err |-> NoneVal,
     out |-> [i \in DOMAIN zone.lstIssues |->
                [description |->
                    IF zone.lstIssues[i].id \in DOMAIN DESCRIPTION_TO_TEXT
                    THEN Format(DESCRIPTION_TO_TEXT[zone.lstIssues[i].id],
                                zone.strName)
                    ELSE <<"unknown">>,
                 level |->
                    IF zone.lstIssues[i].level \in DOMAIN LEVEL_TO_TEXT
                    THEN LEVEL_TO_TEXT[zone.lstIssues[i].level]
                    ELSE "unknown"]]]

\* the issues of one zone, or an error at the first unlisted id or level
ConvertIssues(zone) ==
    IF \E i \in DOMAIN zone.lstIssues :
          \/ zone.lstIssues[i].id \notin DOMAIN DESCRIPTION_TO_TEXT
          \/ zone.lstIssues[i].level \notin DOMAIN LEVEL_TO_TEXT
    THEN [err |-> "KeyError", out |-> <<>>]
    ELSE [err |-> NoneVal,
          out |-> [i \in DOMAIN zone.lstIssues |->
                     [description |->
                         Format(DESCRIPTION_TO_TEXT[zone.lstIssues[i].id],
                                zone.strName),
                      level |-> LEVEL_TO_TEXT[zone.lstIssues[i].level]]]]

\* _get_issues._convert_to_v1: [err, out]
_convert_to_v1(input) ==
    LET f[n \in 0..Len(input.data)] ==
            IF n = 0 THEN [err |-> NoneVal, out |-> <<>>]
            ELSE IF f[n - 1].err # NoneVal THEN f[n - 1]
            ELSE LET c == ConvertIssues(input.data[n])
                 IN  [err |-> c.err, out |-> f[n - 1].out \o c.out]
    IN  f[Len(input.data)]

\* the issues accessor awaiting _get_issues whatever the cache holds
HubIssuesAlwaysFetching(t) ==
    /\ Call(t, "Hub.issues", 0)
    /\ FirstSend(t, "issues", Request("GET", <<"issues">>, NoneVal))
    /\ UNCHANGED <<api_v1, funVars, graphVars, cacheVars>>

\* the issues accessor: awaits _get_issues only when the cache is falsy
HubIssues(t) ==
    /\ Call(t, "Hub.issues", 0)
    /\ IF _issues # <<>>
       THEN /\ sent' = [sent EXCEPT ![t] = 0]
            /\ Finish(t, "ok", Some(_issues))
       ELSE FirstSend(t, "issues", Request("GET", <<"issues">>, NoneVal))
    /\ UNCHANGED <<api_v1, funVars, graphVars, cacheVars>>

\* the explicit fetch of the issues
HubGetIssues(t) ==
    /\ Call(t, "Hub._get_issues", 0)
    /\ FirstSend(t, "issues", Request("GET", <<"issues">>, NoneVal))
    /\ UNCHANGED <<api_v1, funVars, graphVars, cacheVars>>

\* _get_issues from its response on (client._verbose is False)
HubIssuesResp(t) ==
    /\ pc[t] = "issues"
    /\ \E body \in IssuesBodies :
         LET c == IF api_v1 THEN [err |-> NoneVal, out |-> body]
                  ELSE _convert_to_v1(body)
         IN  IF c.err # NoneVal
             THEN /\ Finish(t, c.err, None)
                  /\ UNCHANGED _issues
             ELSE /\ _issues' = c.out
                  /\ Finish(t, "ok", Some(c.out))
    /\ UNCHANGED <<api_v1, funVars, graphVars, _zones, _devices, _zones_raw, _devices_raw,
                   op, sent, lastPass>>

\* ------------------------------------ GeniusZone.update, GeniusDevice.update
\* self.__dict__.update(data): the keys of data replace the attributes
Merge(attrs, data) == data @@ attrs

ZoneUpdateCall(t) ==
    /\ \E zone \in DOMAIN zoneObj :
         /\ Call(t, "Zone.update", zone)
         /\ FirstSend(t, "zone_update",
                      Request("GET", <<"zones", zoneObj[zone].data.id>>, NoneVal))
    /\ UNCHANGED <<api_v1, funVars, graphVars, cacheVars>>

ZoneUpdateResp(t) ==
    /\ pc[t] = "zone_update"
    /\ \E data \in V1ZoneRecs :
         /\ data.id = zoneObj[target[t]].data.id
         /\ zoneObj' = [zoneObj EXCEPT ![target[t]].data = Merge(@, data)]
    /\ Finish(t, "ok", None)
    /\ UNCHANGED <<api_v1, funVars, zone_objs, zone_by_id, zone_by_name, device_objs,
                   device_by_id, deviceObj, cacheVars, op, sent, lastPass>>

DeviceUpdateCall(t) ==
    /\ \E device \in DOMAIN deviceObj :
         /\ Call(t, "Device.update", device)
         /\ FirstSend(t, "device_update",
                      Request("GET", <<"devices", deviceObj[device].data.id>>,
                              NoneVal))
    /\ UNCHANGED <<api_v1, funVars, graphVars, cacheVars>>

DeviceUpdateResp(t) ==
    /\ pc[t] = "device_update"
    /\ \E data \in V1DeviceRecs :
         /\ data.id = deviceObj[target[t]].data.id
         /\ deviceObj' = [deviceObj EXCEPT ![target[t]].data = Merge(@, data)]
    /\ Finish(t, "ok", None)
    /\ UNCHANGED <<api_v1, funVars, zone_objs, zone_by_id, zone_by_name, device_objs,
                   device_by_id, zoneObj, cacheVars, op, sent, lastPass>>

\* ------------------------------------ GeniusZone.set_mode, .set_override
Modes == {"off", "timer", "footprint", "override", "bogus"}

Durations == {60, 3600}

Setpoints == {5, 21}

set_mode(t, zone, mode) ==
    /\ Call(t, "Zone.set_mode", zone)
    /\ IF api_v1
       THEN FirstSend(t, "command",
                      Request("PUT", <<"zones", zoneObj[zone].data.id, "mode">>,
                              mode))
       ELSE FirstSend(t, "command",
                      Request("PATCH", <<"zone", zoneObj[zone].data.id>>,
                              [iMode |-> mode]))
    /\ UNCHANGED <<api_v1, funVars, graphVars, cacheVars>>

ZoneSetMode(t) ==
    \E zone \in DOMAIN zoneObj, mode \in Modes : set_mode(t, zone, mode)

\* set_override with the two values in each other's place
SetOverrideSwapping(t, zone, duration, setpoint) ==
    /\ Call(t, "Zone.set_override", zone)
    /\ IF api_v1
       THEN FirstSend(t, "command",
                      Request("POST",
                              <<"zones", zoneObj[zone].data.id, "override">>,
                              [duration |-> setpoint, setpoint |-> duration]))
       ELSE FirstSend(t, "command",
                      Request("PATCH", <<"zone", zoneObj[zone].data.id>>,
                              [iMode |-> 16, iBoostTimeRemaining |-> setpoint,
                               fBoostSP |-> duration]))
    /\ UNCHANGED <<api_v1, funVars, graphVars, cacheVars>>

set_override(t, zone, duration, setpoint) ==
    /\ Call(t, "Zone.set_override", zone)
    /\ IF api_v1
       THEN FirstSend(t, "command",
                      Request("POST",
                              <<"zones", zoneObj[zone].data.id, "override">>,
                              [duration |-> duration, setpoint |-> setpoint]))
       ELSE FirstSend(t, "command",
                      Request("PATCH", <<"zone", zoneObj[zone].data.id>>,
                              [iMode |-> 16, iBoostTimeRemaining |-> duration,
                               fBoostSP |-> setpoint]))
    /\ UNCHANGED <<api_v1, funVars, graphVars, cacheVars>>

ZoneSetOverride(t) ==
    \E zone \in DOMAIN zoneObj, duration \in Durations, setpoint \in Setpoints :
        set_override(t, zone, duration, setpoint)

\* set_mode and set_override from their response on: nothing is kept
CommandResp(t) ==
    /\ pc[t] = "command"
    /\ Finish(t, "ok", None)
    /\ UNCHANGED <<api_v1, funVars, graphVars, cacheVars, op, sent, lastPass>>

\* ------------------------------------------------------------------- Next
\* the hub's update pass and the per-entity updates
Step(t) ==
    \/ HubUpdateCall(t)
    \/ HubUpdateZonesResp(t)
    \/ HubUpdateDevicesResp(t)
    \/ HubUpdateZones2Resp(t)
    \/ RequestFails(t)
    \/ ZoneUpdateCall(t)
    \/ ZoneUpdateResp(t)
    \/ DeviceUpdateCall(t)
    \/ DeviceUpdateResp(t)

Next == \E t \in MainTasks : Step(t)

Spec == Init /\ [][Next]_vars

\* the hub's update pass and the hub's accessors
StepAccessors(t) ==
    \/ HubUpdateCall(t)
    \/ HubUpdateZonesResp(t)
    \/ HubUpdateDevicesResp(t)
    \/ HubUpdateZones2Resp(t)
    \/ RequestFails(t)
    \/ HubZones(t)
    \/ HubDevices(t)
    \/ HubIssues(t)
    \/ HubGetIssues(t)
    \/ HubIssuesResp(t)

NextAccessors == \E t \in MainTasks : StepAccessors(t)

SpecAccessors == Init /\ [][NextAccessors]_vars

\* a Zone made by its constructor, GeniusZone(client, hub, zone_dict), for a
\* client of either protocol
InitZone ==
    /\ api_v1 \in BOOLEAN
    /\ zone_objs = <<>>
    /\ zone_by_id = EmptyMap
    /\ zone_by_name = EmptyMap
    /\ device_objs = <<>>
    /\ device_by_id = EmptyMap
    /\ \E zone_dict \in V1ZoneRecs : zoneObj = <<GeniusZone(zone_dict)>>
    /\ deviceObj = <<>>
    /\ _zones = <<>>
    /\ _devices = <<>>
    /\ _issues = <<>>
    /\ _zones_raw = None
    /\ _devices_raw = None
    /\ pc = [t \in Tasks |-> "idle"]
    /\ op = [t \in Tasks |-> NoneVal]
    /\ req = [t \in Tasks |-> None]
    /\ target = [t \in Tasks |-> 0]
    /\ sent = [t \in Tasks |-> 0]
    /\ result = [t \in Tasks |-> NoneVal]
    /\ ret = [t \in Tasks |-> None]
    /\ lastPass = "none"
    /\ fn = "none"
    /\ fn_input = NoInput
    /\ fn_output = NoOutput

\* the operations of a Zone
StepZone(t) ==
    \/ ZoneSetMode(t)
    \/ ZoneSetOverride(t)
    \/ CommandResp(t)
    \/ ZoneUpdateCall(t)
    \/ ZoneUpdateResp(t)
    \/ RequestFails(t)

NextZone == \E t \in MainTasks : StepZone(t)

SpecZone == InitZone /\ [][NextZone]_vars

\* two callers of Hub.update on one Hub, interleaved at the awaits
StepConcurrent(t) ==
    \/ HubUpdateCall(t)
    \/ HubUpdateZonesResp(t)
    \/ HubUpdateDevicesResp(t)
    \/ HubUpdateZones2Resp(t)
    \/ RequestFails(t)

NextConcurrent == \E t \in Tasks : StepConcurrent(t)

SpecConcurrent == Init /\ [][NextConcurrent]_vars

\* ================================================================= claims
\* the task t has come back from an update pass that got all its responses
PassDone(t) ==
    /\ op[t] = "Hub.update"
    /\ pc[t] = "idle"
    /\ lastPass \in {"full", "same"}

\* the records of the latest zones and devices responses
ZonesSeen == IF _zones_raw = None THEN {} ELSE Range(_zones_raw[1])

DevicesSeen == IF _devices_raw = None THEN {} ELSE Range(_devices_raw[1])

\* the Zone objects whose device table holds the Device object device
ZonesHolding(device) ==
    {zone \in DOMAIN zoneObj : device \in Range(zoneObj[zone].device_objs)}

\* C1: an update pass whose zones and devices responses are those of the pass
\* before it changes nothing of the object graph: the zones step of such a
\* pass, and then its devices step, leave the hub's tables, every Zone's
\* tables and both heaps of objects as the first pass left them.
C1_IdenticalPassKeepsObjects ==
    [][(lastPass' \in {"same_zones", "same"}) => UNCHANGED graphVars]_vars

C1_Witness ==
    /\ lastPass = "same"
    /\ zone_objs # <<>>
    /\ device_objs # <<>>
    /\ \E t \in Tasks : PassDone(t) /\ result[t] = "ok"

\* C2 (as the claim states it): when the zones response of an update pass
\* carries, for an id the hub already knows, a name that the name index does
\* not map to that Zone, the pass makes the index map the new name to the
\* existing Zone object, and makes no second Zone object for the id.
C2_RenameReachesNameIndex ==
    [][\A t \in Tasks :
         (api_v1 /\ pc[t] = "update_zones" /\ pc'[t] = "update_devices") =>
           \A rec \in ZonesSeen' :
             ( /\ rec.id \in DOMAIN zone_by_id
               /\ ~(rec.name \in DOMAIN zone_by_name
                    /\ zone_by_name[rec.name] = zone_by_id[rec.id])
               /\ \A other \in ZonesSeen' : other.name = rec.name => other = rec )
             => /\ rec.name \in DOMAIN zone_by_name'
                /\ zone_by_name'[rec.name] = zone_by_id[rec.id]
                /\ zone_by_id'[rec.id] = zone_by_id[rec.id]
                /\ Cardinality({z \in DOMAIN zoneObj' :
                                  zoneObj'[z].data.id = rec.id}) = 1]_vars

\* under v3 the cached _zones are the translation of the whole response
Translated ==
    api_v1 \/ ( /\ _zones_raw # None
                /\ ConvertZones(_zones_raw[1]).err = NoneVal
                /\ _zones = SortZones(ConvertZones(_zones_raw[1]).out) )

\* C3 (as the claim states it): under v1 and v3 alike, an update pass whose
\* requests all succeeded ends without an error, with a Zone registered by id
\* and by name for every zone of the response (in its v1 shape) and a Device
\* registered by id for every device extracted from it.
C3_UpdateRegistersEverything ==
    \A t \in Tasks :
      ( /\ op[t] = "Hub.update" /\ pc[t] = "idle"
        /\ result[t] \in {"ok", "KeyError"}
        /\ Translated )
      => /\ result[t] = "ok"
         /\ \A rec \in Range(_zones) :
              /\ rec.id \in DOMAIN zone_by_id
              /\ rec.name \in DOMAIN zone_by_name
         /\ \A rec \in Range(_devices) : rec.id \in DOMAIN device_by_id

\* C4 (as the claim states it): after an update pass, a device of the devices
\* response whose assigned-zone name is not in the name index is registered
\* in the hub's device table, is in no Zone's device table, and the pass has
\* ended without an error.
C4_UnknownZoneNameIsTolerated ==
    \A t \in Tasks :
      (api_v1 /\ PassDone(t)) =>
        \A rec \in DevicesSeen :
          LET name == rec.assignedZones[1].name
          IN  (Truthy(name) /\ name \notin DOMAIN zone_by_name)
              => /\ result[t] = "ok"
                 /\ rec.id \in DOMAIN device_by_id
                 /\ ZonesHolding(device_by_id[rec.id]) = {}

\* C5: in every state, every entry of a Zone's device table is the Device
\* object that the hub's device table holds under the same id, and every
\* Device in a Zone's list is in the hub's list.
C5_ZoneDevicesAreHubDevices ==
    \A zone \in DOMAIN zoneObj :
      /\ \A idx \in DOMAIN zoneObj[zone].device_by_id :
           /\ idx \in DOMAIN device_by_id
           /\ zoneObj[zone].device_by_id[idx] = device_by_id[idx]
      /\ \A device \in Range(zoneObj[zone].device_objs) :
           device \in Range(device_objs)

C5_Witness ==
    \E zone \in DOMAIN zoneObj :
      /\ zoneObj[zone].device_objs # <<>>
      /\ DOMAIN zoneObj[zone].device_by_id # {}

\* C6: no step changes the data of an existing Zone or Device object except
\* the response step of a Zone.update() or Device.update() called on that
\* very object; the reconciliation of Hub.update() changes none, whatever the
\* upstream record for the id says.
C6_OnlyEntityUpdateChangesData ==
    [][ /\ \A zone \in DOMAIN zoneObj :
             /\ zone \in DOMAIN zoneObj'
             /\ zoneObj'[zone].data # zoneObj[zone].data =>
                  \E t \in Tasks : /\ pc[t] = "zone_update"
                                   /\ target[t] = zone
                                   /\ result'[t] = "ok"
        /\ \A device \in DOMAIN deviceObj :
             /\ device \in DOMAIN deviceObj'
             /\ deviceObj'[device].data # deviceObj[device].data =>
                  \E t \in Tasks : /\ pc[t] = "device_update"
                                   /\ target[t] = device
                                   /\ result'[t] = "ok" ]_vars

\* a pass has just ended without error over records that differ from the
\* data of the Zone and of the Device registered under their ids
C6_Witness ==
    /\ \E t \in Tasks : PassDone(t) /\ result[t] = "ok"
    /\ \E rec \in ZonesSeen :
         /\ rec.id \in DOMAIN zone_by_id
         /\ zoneObj[zone_by_id[rec.id]].data.name # rec.name
    /\ \E rec \in DevicesSeen :
         /\ rec.id \in DOMAIN device_by_id
         /\ deviceObj[device_by_id[rec.id]].data.assignedZones # rec.assignedZones

\* C7: every step keeps every entry of the hub's by-id tables: an id that
\* maps to a Zone (a Device) object maps to the same object after the step.
C7_RegisteredForGood ==
    [][ /\ \A id \in DOMAIN zone_by_id :
             id \in DOMAIN zone_by_id' /\ zone_by_id'[id] = zone_by_id[id]
        /\ \A idx \in DOMAIN device_by_id :
             idx \in DOMAIN device_by_id' /\ device_by_id'[idx] = device_by_id[idx]
      ]_vars

\* a pass has just ended without error whose responses lacked a registered
\* zone id and a registered device id
C7_Witness ==
    /\ \E t \in Tasks : PassDone(t) /\ result[t] = "ok"
    /\ \E id \in DOMAIN zone_by_id : \A rec \in ZonesSeen : rec.id # id
    /\ \E idx \in DOMAIN device_by_id : \A rec \in DevicesSeen : rec.id # idx

\* C9 (as the claim states it): under v3 an update pass never issues more
\* than one request.
C9_OneRequestPerV3Pass ==
    \A t \in Tasks : (~api_v1 /\ op[t] = "Hub.update") => sent[t] <= 1

\* the step is one of task t
Acts(t) ==
    <<pc[t], op[t], req[t], target[t], sent[t], result[t], ret[t]>>'
        # <<pc[t], op[t], req[t], target[t], sent[t], result[t], ret[t]>>

\* the call of task t in this step issues no request and returns
NoRequest(t) == pc'[t] = "idle" /\ req'[t] = None /\ sent'[t] = 0

\* C8: a read of the zones, devices or issues accessor issues a request only
\* when the accessor's cache is empty; a read that finds its cache filled
\* issues none, leaves the cache as it is and returns that cache.
C8_AccessorsReadTheCache ==
    [][\A t \in Tasks : (pc[t] = "idle" /\ Acts(t)) =>
         /\ op'[t] = "Hub.zones" =>
              /\ NoRequest(t)
              /\ ret'[t] = Some(_zones')
              /\ _zones # <<>> => _zones' = _zones
         /\ op'[t] = "Hub.devices" =>
              /\ NoRequest(t)
              /\ ret'[t] = Some(_devices')
              /\ _devices # <<>> => _devices' = _devices
         /\ (op'[t] = "Hub.issues" /\ _issues # <<>>) =>
              /\ NoRequest(t)
              /\ ret'[t] = Some(_issues)
              /\ _issues' = _issues
         /\ (op'[t] = "Hub.issues" /\ _issues = <<>>) =>
              /\ pc'[t] = "issues"
              /\ _issues' = _issues]_vars

\* a read of the issues has been served from the cache that a fetch filled
C8_Witness ==
    \E t \in Tasks :
      /\ op[t] = "Hub.issues" /\ pc[t] = "idle"
      /\ sent[t] = 0
      /\ _issues # <<>>
      /\ ret[t] = Some(_issues)

\* the mode that a set_mode request carries
ModeOf(request) ==
    IF request.method = "PUT" THEN request.data ELSE request.data.iMode

\* C10 (as the claim states it): set_mode never issues a request for a mode
\* outside off, timer, footprint and override.
C10_BogusModeIssuesNoRequest ==
    \A t \in Tasks :
      (op[t] = "Zone.set_mode" /\ req[t] # None) =>
        ModeOf(req[t][1]) \in {"off", "timer", "footprint", "override"}

\* the texts of the four modes
ModeTexts == {"off", "timer", "footprint", "override"}

\* C11 (as the claim states it): a set_mode request for one of the four modes
\* is the only request of its call; under v1 it is a PUT to zones/{id}/mode
\* whose body is the mode text, under v3 a PATCH to zone/{id} whose body
\* {iMode: n} holds the numeric code of the mode and not the mode text.
C11_SetModeRequest ==
    \A t \in Tasks :
      (op[t] = "Zone.set_mode" /\ pc[t] = "command"
         /\ ModeOf(req[t][1]) \in ModeTexts) =>
        LET request == req[t][1]
            id      == zoneObj[target[t]].data.id
        IN  /\ sent[t] = 1
            /\ IF api_v1
               THEN /\ request.method = "PUT"
                    /\ request.url = <<"zones", id, "mode">>
                    /\ request.data \in ModeTexts
               ELSE /\ request.method = "PATCH"
                    /\ request.url = <<"zone", id>>
                    /\ request.data.iMode \notin ModeTexts

\* the request that set_override sends for the zone
OverrideRequest(request, zone) ==
    LET id == zoneObj[zone].data.id
    IN  IF api_v1
        THEN /\ request.method = "POST"
             /\ request.url = <<"zones", id, "override">>
             /\ DOMAIN request.data = {"duration", "setpoint"}
             /\ request.data.duration \in Durations
             /\ request.data.setpoint \in Setpoints
        ELSE /\ request.method = "PATCH"
             /\ request.url = <<"zone", id>>
             /\ DOMAIN request.data = {"iMode", "iBoostTimeRemaining", "fBoostSP"}
             /\ request.data.iMode = zone_modes.Override
             /\ request.data.iBoostTimeRemaining \in Durations
             /\ request.data.fBoostSP \in Setpoints

\* C12: every step of a set_override call leaves the Zone objects, the hub's
\* tables and the hub's caches unchanged and has issued one request in all;
\* the request is the POST zones/{id}/override {duration, setpoint} under v1
\* and the PATCH zone/{id} {iMode: 16, iBoostTimeRemaining, fBoostSP} under
\* v3, with a duration in the place of the duration and a setpoint in the
\* place of the setpoint.
C12_SetOverrideRequest ==
    [][\A t \in Tasks : (op'[t] = "Zone.set_override" /\ Acts(t)) =>
         /\ UNCHANGED <<api_v1, graphVars, cacheVars>>
         /\ sent'[t] = 1
         /\ pc'[t] = "command" => OverrideRequest(req'[t][1], target'[t])]_vars

\* a set_override call has been answered
C12_Witness ==
    \E t \in Tasks :
      /\ op[t] = "Zone.set_override" /\ pc[t] = "idle"
      /\ result[t] = "ok" /\ sent[t] = 1

MaxNodes == 2

Addrs == {"1", "5", "WeatherData"}

\* the nodes list of a v3 zone
NodeLists == SeqsUpTo({V3Node(a, "A") : a \in Addrs}, MaxNodes)

\* GET zones under v3: zones with and without a nodes list
ZonesPayloads ==
    SeqsUpTo({V3Zone(1, zone_types.ControlSP)}
             \cup {V3Zone(1, zone_types.ControlSP) @@ [nodes |-> ns] :
                     ns \in NodeLists},
             MaxRecs)

ChildKeys == <<"a", "b", "c", "d">>

\* the childNodes of a container: the items of a dict of device records
ChildItems == {[i \in DOMAIN ns |-> <<ChildKeys[i], ns[i]>>] : ns \in NodeLists}

ContainerItems ==
    {<<k1, [childNodes |-> c]>> : k1 \in {"5", "WeatherData"}, c \in ChildItems}

\* /v3/data_manager: a dict of containers, each key once
DataManagerPayloads ==
    {[childNodes |-> l] :
       l \in {l \in SeqsUpTo(ContainerItems, MaxNodes) :
                \A i, j \in DOMAIN l : i # j => l[i][1] # l[j][1]}}

\* v3 zone records: every type and mode of const.py, an unlisted code of
\* each (9 and 7), with and without the PIR bit
ZoneInputs ==
    [iID : {1}, strName : {"A"},
     iType : {zone_types.Manager, zone_types.OnOffTimer, zone_types.ControlSP,
              zone_types.TPI, 9},
     iMode : {zone_modes.Off, zone_modes.Footprint, 7},
     fPV : {21}, fSP : {0, 20},
     iFlagExpectedKit : {0, kit_types.PIR, kit_types.PIR + 2},
     iBoostTimeRemaining : {3600}, fBoostSP : {0, 22},
     objFootprint : [objReactive : [bTriggerOn : BOOLEAN], bIsNight : BOOLEAN]]

\* GET issues under v3: zones with at most one issue, listed or not
IssueInputs ==
    {[data |-> d] :
       d \in SeqsUpTo({[strName |-> "A", lstIssues |-> <<>>]}
                      \cup {[strName |-> "A",
                             lstIssues |-> <<[id |-> i, level |-> l]>>] :
                              i \in {"node:low_battery", "node:unlisted"},
                              l \in {2, 9}},
                      MaxRecs)}

InitFunctions ==
    /\ api_v1 = FALSE
    /\ zone_objs = <<>>
    /\ zone_by_id = EmptyMap
    /\ zone_by_name = EmptyMap
    /\ device_objs = <<>>
    /\ device_by_id = EmptyMap
    /\ zoneObj = <<>>
    /\ deviceObj = <<>>
    /\ _zones = <<>>
    /\ _devices = <<>>
    /\ _issues = <<>>
    /\ _zones_raw = None
    /\ _devices_raw = None
    /\ pc = [t \in Tasks |-> "idle"]
    /\ op = [t \in Tasks |-> NoneVal]
    /\ req = [t \in Tasks |-> None]
    /\ target = [t \in Tasks |-> 0]
    /\ sent = [t \in Tasks |-> 0]
    /\ result = [t \in Tasks |-> NoneVal]
    /\ ret = [t \in Tasks |-> None]
    /\ lastPass = "none"
    /\ fn = "none"
    /\ fn_output = NoOutput
    /\ \/ \E x \in ZonesPayloads : fn_input = [kind |-> "zones", payload |-> x]
       \/ \E x \in DataManagerPayloads :
            fn_input = [kind |-> "data_manager", payload |-> x]
       \/ \E x \in ZoneInputs : fn_input = [kind |-> "zone", payload |-> x]
       \/ \E x \in IssueInputs : fn_input = [kind |-> "issues", payload |-> x]

\* the call name(fn_input.payload), which gives out
Apply(name, kind, out) ==
    /\ fn = "none"
    /\ fn_input.kind = kind
    /\ fn' = name
    /\ fn_output' = out
    /\ UNCHANGED <<api_v1, graphVars, cacheVars, taskVars, lastPass, fn_input>>

ExtractDevicesFromZones ==
    /\ fn = "none"
    /\ Apply("_extract_devices_from_zones", "zones",
          Returned(_extract_devices_from_zones(fn_input.payload)))

ExtractDevicesFromDataManager ==
    /\ fn = "none"
    /\ Apply("_extract_devices_from_data_manager", "data_manager",
          Returned(_extract_devices_from_data_manager(fn_input.payload)))

ConvertZone ==
    /\ fn = "none"
    /\ Apply("_convert_zone", "zone",
          LET c == _convert_zone(fn_input.payload)
          IN  IF c.ok THEN Returned(c.value) ELSE Raised("KeyError"))

ConvertToV1 ==
    /\ fn = "none"
    /\ Apply("_convert_to_v1", "issues",
          LET c == _convert_to_v1(fn_input.payload)
          IN  IF c.err = NoneVal THEN Returned(c.out) ELSE Raised(c.err))

NextFunctions ==
    \/ ExtractDevicesFromZones
    \/ ExtractDevicesFromDataManager
    \/ ConvertZone
    \/ ConvertToV1

SpecFunctions == InitFunctions /\ [][NextFunctions]_vars

\* the addresses of the device records that an extraction is handed
NodesOfZones(payload) ==
    UNION {IF "nodes" \in DOMAIN payload[i]
           THEN {payload[i].nodes[j].addr : j \in DOMAIN payload[i].nodes}
           ELSE {} : i \in DOMAIN payload}

NodesOfDataManager(payload) ==
    UNION {{payload.childNodes[i][2].childNodes[j][2].addr :
              j \in DOMAIN payload.childNodes[i][2].childNodes} :
           i \in DOMAIN payload.childNodes}

\* the addresses of the devices that the extraction returned
Extracted == {fn_output.value[1][i] : i \in DOMAIN fn_output.value[1]}

\* C14 (as the claim states it): neither extraction returns a device whose
\* address is "1" or "WeatherData", and each returns every other addressed
\* node of its input.
C14_ExtractionExcludesTheTwoAddresses ==
    /\ fn = "_extract_devices_from_zones" =>
         {d.addr : d \in Extracted}
           = NodesOfZones(fn_input.payload) \ {"1", "WeatherData"}
    /\ fn = "_extract_devices_from_data_manager" =>
         {d.id : d \in Extracted}
           = NodesOfDataManager(fn_input.payload) \ {"1", "WeatherData"}

\* a v3 zone record whose type and mode codes are those of const.py
ValidZone(input) ==
    /\ input.iType \in DOMAIN ITYPE_TO_TYPE
    /\ input.iMode \in DOMAIN IMODE_TO_MODE

\* C15: _convert_zone returns for every valid v3 zone record, and the zone
\* it returns has temperature exactly for the types ControlSP and TPI, with
\* fPV and fSP copied; has setpoint = (fSP # 0) for OnOffTimer and no
\* setpoint for another type; has the override block {duration, setpoint}
\* and an empty schedule exactly for OnOffTimer, ControlSP and TPI, the
\* override's setpoint being (fBoostSP # 0) for OnOffTimer and fBoostSP
\* otherwise.
C15_FieldsFollowTheType ==
    (fn = "_convert_zone" /\ ValidZone(fn_input.payload)) =>
      /\ fn_output.err = NoneVal
      /\ LET in    == fn_input.payload
             z     == fn_output.value[1]
             heat  == in.iType \in {zone_types.ControlSP, zone_types.TPI}
             timer == in.iType = zone_types.OnOffTimer
         IN  /\ ("temperature" \in DOMAIN z) <=> heat
             /\ ("setpoint" \in DOMAIN z) <=> (heat \/ timer)
             /\ heat => (z.temperature = in.fPV /\ z.setpoint = in.fSP)
             /\ timer => (z.setpoint = (in.fSP # 0))
             /\ ("override" \in DOMAIN z) <=> (heat \/ timer)
             /\ ("schedule" \in DOMAIN z) <=> (heat \/ timer)
             /\ (heat \/ timer) =>
                  /\ DOMAIN z.override = {"duration", "setpoint"}
                  /\ z.override.duration = in.iBoostTimeRemaining
                  /\ DOMAIN z.schedule = {}
             /\ heat => z.override.setpoint = in.fBoostSP
             /\ timer => z.override.setpoint = (in.fBoostSP # 0)

\* an OnOffTimer zone with fSP = 0 has been translated: its setpoint is FALSE
C15_Witness ==
    /\ fn = "_convert_zone"
    /\ fn_input.payload.iType = zone_types.OnOffTimer
    /\ fn_input.payload.fSP = 0
    /\ fn_input.payload.fBoostSP # 0
    /\ fn_output.err = NoneVal
    /\ fn_output.value[1].setpoint = FALSE
    /\ fn_output.value[1].override.setpoint = TRUE

\* C16: the zone that _convert_zone returns has the key occupied exactly when
\* the PIR bit of iFlagExpectedKit is set, and then occupied = (iMode is
\* Footprint) and objFootprint.objReactive.bTriggerOn and not
\* objFootprint.bIsNight.
C16_OccupiedFollowsThePIRBit ==
    (fn = "_convert_zone" /\ fn_output.err = NoneVal) =>
      LET in == fn_input.payload
          z  == fn_output.value[1]
      IN  /\ ("occupied" \in DOMAIN z) <=> HasPIR(in.iFlagExpectedKit)
          /\ HasPIR(in.iFlagExpectedKit) =>
               (z.occupied <=>
                  /\ in.iMode = zone_modes.Footprint
                  /\ in.objFootprint.objReactive.bTriggerOn
                  /\ ~in.objFootprint.bIsNight)

\* a zone with a PIR, in footprint mode, triggered by day, has been
\* translated as occupied
C16_Witness ==
    /\ fn = "_convert_zone"
    /\ HasPIR(fn_input.payload.iFlagExpectedKit)
    /\ fn_input.payload.iFlagExpectedKit # kit_types.PIR
    /\ fn_output.err = NoneVal
    /\ fn_output.value[1].occupied

\* the issue payload holds an issue whose id or level const.py does not list
UnlistedIssue(payload) ==
    \E i \in DOMAIN payload.data : \E j \in DOMAIN payload.data[i].lstIssues :
       \/ payload.data[i].lstIssues[j].id \notin DOMAIN DESCRIPTION_TO_TEXT
       \/ payload.data[i].lstIssues[j].level \notin DOMAIN LEVEL_TO_TEXT

\* C17: _convert_zone of a record whose type or mode code is not listed, and
\* _convert_to_v1 of a payload holding an issue whose id or level is not
\* listed, raise KeyError and return nothing.
C17_UnlistedCodeRaises ==
    /\ (fn = "_convert_zone" /\ ~ValidZone(fn_input.payload)) =>
         fn_output = Raised("KeyError")
    /\ (fn = "_convert_to_v1" /\ UnlistedIssue(fn_input.payload)) =>
         fn_output = Raised("KeyError")

\* issues, the second of them of an unlisted level, have been converted
C17_Witness ==
    /\ fn = "_convert_to_v1"
    /\ Len(fn_input.payload.data) = 2
    /\ ~UnlistedIssue([data |-> <<fn_input.payload.data[1]>>])
    /\ fn_input.payload.data[1].lstIssues # <<>>
    /\ UnlistedIssue(fn_input.payload)
    /\ fn_output.err = "KeyError"

\* the Zone objects that this step creates under the name n
CreatedAs(n) ==
    {z \in DOMAIN zoneObj' \ DOMAIN zoneObj : zoneObj'[z].data.name = n}

\* the latest of a set of objects of one heap
Latest(S) == CHOOSE x \in S : \A y \in S : y <= x

\* the zones response of the pass holds two zones of different ids named n
TwoZonesNamed(n, zones) ==
    \E i, j \in DOMAIN zones :
       zones[i].id # zones[j].id /\ zones[i].name = n /\ zones[j].name = n

\* C18 (as the claim states it): under v1, when the zones response of an
\* update pass holds two zones of different ids with one name, the step that
\* reconciles it leaves both registered by id and the name mapped to the Zone
\* written last (the latest it created under that name, else the one that was
\* mapped before); and when the pass ends, each device of the devices
\* response assigned to that name is in the device table of that Zone and of
\* no other.
C18_SharedNameLastWriteWins ==
    [][\A t \in Tasks : \A n \in ZoneNames :
         /\ ( /\ api_v1 /\ pc[t] = "update_zones" /\ pc'[t] = "update_devices"
              /\ TwoZonesNamed(n, _zones') ) =>
              /\ \A rec \in Range(_zones') : rec.id \in DOMAIN zone_by_id'
              /\ n \in DOMAIN zone_by_name'
              /\ zone_by_name'[n] = IF CreatedAs(n) # {}
                                    THEN Latest(CreatedAs(n))
                                    ELSE zone_by_name[n]
         /\ ( /\ api_v1 /\ pc[t] = "update_devices" /\ result'[t] = "ok"
              /\ TwoZonesNamed(n, _zones) ) =>
              \A rec \in Range(_devices') :
                 rec.assignedZones[1].name = n =>
                   {z \in DOMAIN zoneObj' :
                      device_by_id'[rec.id] \in Range(zoneObj'[z].device_objs)}
                     = {zone_by_name'[n]}]_vars

\* the hub's caches hold nothing, or all of one successful fetch: the raw
\* list and, under v3, the sorted translation of all of it
CachesWhole ==
    /\ IF _zones_raw = None THEN _zones = <<>>
       ELSE IF api_v1 THEN _zones = _zones_raw[1]
       ELSE /\ ConvertZones(_zones_raw[1]).err = NoneVal
            /\ _zones = SortZones(ConvertZones(_zones_raw[1]).out)
    /\ IF _devices_raw = None THEN _devices = <<>>
       ELSE _devices = _get_devices(_devices_raw[1]).devices

\* C19 (as the claim states it): the raw zones and devices caches start
\* unset, and once set are never unset again; a request that fails leaves
\* every cache as it was; and after every step the caches hold nothing or all
\* of one successful fetch, never part of a response whose translation
\* failed.
C19_CachesAreNeverPartial ==
    [][ /\ (_zones_raw # None => _zones_raw' # None)
        /\ (_devices_raw # None => _devices_raw' # None)
        /\ \A t \in Tasks : RequestFails(t) => UNCHANGED cacheVars
        /\ CachesWhole' ]_vars

\* C20 (as the claim states it): every Device object is in the device table
\* of at most one Zone.
C20_DeviceInAtMostOneZone ==
    \A device \in DOMAIN deviceObj : Cardinality(ZonesHolding(device)) <= 1

\* the list objs and the table by_id hold the same objects of the heap, each
\* once in the list and under its own id in the table
TablesAgree(objs, by_id, heap) ==
    /\ Range(objs) = Range(by_id)
    /\ \A i, j \in DOMAIN objs : i # j => heap[objs[i]].data.id # heap[objs[j]].data.id
    /\ \A id \in DOMAIN by_id : heap[by_id[id]].data.id = id

\* C21: in every state zone_by_id and zone_objs hold the same Zone objects,
\* no id twice in zone_objs; likewise device_by_id and device_objs; likewise
\* the device_by_id and device_objs of every Zone.
C21_TablesAndListsAgree ==
    /\ TablesAgree(zone_objs, zone_by_id, zoneObj)
    /\ TablesAgree(device_objs, device_by_id, deviceObj)
    /\ \A zone \in DOMAIN zoneObj :
         TablesAgree(zoneObj[zone].device_objs, zoneObj[zone].device_by_id,
                     deviceObj)

\* two Zones are registered, and a Device is registered and linked to one
C21_Witness ==
    /\ Len(zone_objs) = 2
    /\ Len(device_objs) = 1
    /\ \E zone \in DOMAIN zoneObj : Len(zoneObj[zone].device_objs) = 1

\* C22: with two Hub.update calls on one Hub interleaved at their awaits, at
\* most one Zone object and at most one Device object exists for an id.
C22_OneObjectPerId ==
    /\ \A y, z \in DOMAIN zoneObj :
         zoneObj[y].data.id = zoneObj[z].data.id => y = z
    /\ \A d, e \in DOMAIN deviceObj :
         deviceObj[d].data.id = deviceObj[e].data.id => d = e

\* both calls are suspended at their devices request, each having reconciled
\* a zones response, and the Zones and the Device of an earlier pass exist
C22_Witness ==
    /\ pc[1] = "update_devices" /\ pc[2] = "update_devices"
    /\ Len(zoneObj) = 2 /\ Len(_zones) = 2
    /\ Len(deviceObj) = 1

\* C23: under v1, the step in which the devices request of an update pass
\* fails ends the pass with the error, leaves every zone of the pass's zones
\* response registered, by id and in zone_objs, and adds no Device object.
C23_FailedPassKeepsItsZones ==
    [][\A t \in Tasks :
         (api_v1 /\ pc[t] = "update_devices" /\ RequestFails(t)) =>
           /\ pc'[t] = "idle"
           /\ result'[t] = "AssertionError"
           /\ \A rec \in Range(_zones') :
                /\ rec.id \in DOMAIN zone_by_id'
                /\ zone_by_id'[rec.id] \in Range(zone_objs')
                /\ zoneObj'[zone_by_id'[rec.id]].data.id = rec.id
           /\ deviceObj' = deviceObj
           /\ device_objs' = device_objs
           /\ device_by_id' = device_by_id]_vars

\* the first pass of a hub failed on its devices request: its two Zones are
\* registered and there is no Device
C23_Witness ==
    \E t \in Tasks :
      /\ api_v1
      /\ op[t] = "Hub.update" /\ pc[t] = "idle"
      /\ result[t] = "AssertionError" /\ sent[t] = 2
      /\ _devices_raw = None
      /\ Len(_zones) = 2 /\ Len(zone_objs) = 2
      /\ deviceObj = <<>>

====
